---- MODULE Spec2Model ----
(***************************************************************************)
(* Model of mk64_plot.py: the time codec (mmsscc_to_seconds,               *)
(* seconds_to_mmsscc), the conversion of the loaded sheet, and the         *)
(* per-track loop that extracts the record progression, builds the step    *)
(* segments, the record markers and the table, and writes one HTML file.   *)
(*                                                                         *)
(* Conventions.                                                            *)
(*  - A Python str is a sequence of one-character strings.                 *)
(*  - A duration (Time_sec, Best_Time) is an integer number of             *)
(*    milliseconds; a time read from the sheet is a multiple of 10 ms.     *)
(*  - Positions of a DataFrame are 1-based here (0-based in pandas).       *)
(*  - A Python call that raises yields Raised, one that returns v yields   *)
(*    Ret(v).                                                              *)
(***************************************************************************)
EXTENDS Integers, Sequences, FiniteSets, TLC

(***************************************************************************)
(* Bounds of the explored inputs.                                          *)
(***************************************************************************)
\* longest single-track series of the record family
MaxLen == 4
\* most rows of a sheet of the orchestration and error families
MaxRows == 3
\* dates of the orchestration family are 1..MaxDate
MaxDate == 2
\* the wide family has up to PaletteLen + MaxExtra distinct players
MaxExtra == 1
\* whole minutes of the codec inputs are 0..MaxMin (and 99)
MaxMin == 1

(***************************************************************************)
(* Python values                                                           *)
(***************************************************************************)
Raised == <<>>

Ret(v) == <<v>>

Val(r) == r[1]

Digits == <<"0", "1", "2", "3", "4", "5", "6", "7", "8", "9">>

IsDigit(c) == \E k \in 1..10 : Digits[k] = c

DigitVal(c) == (CHOOSE k \in 1..10 : Digits[k] = c) - 1

RECURSIVE DigitsVal(_)
DigitsVal(s) ==
    IF s = <<>> THEN 0
    ELSE 10 * DigitsVal(SubSeq(s, 1, Len(s) - 1)) + DigitVal(s[Len(s)])

\* int(s) for a str s: a non-empty run of decimal digits, else ValueError.
\* (Signs, blanks and underscores, which int() also accepts, are outside the
\* alphabet of the explored strings.)
int(s) ==
    IF s # <<>> /\ \A k \in 1..Len(s) : IsDigit(s[k])
    THEN Ret(DigitsVal(s))
    ELSE Raised

\* s.split(sep): the parts of s between the occurrences of sep.
RECURSIVE split(_, _)
split(s, sep) ==
    IF \A k \in 1..Len(s) : s[k] # sep THEN <<s>>
    ELSE LET k == CHOOSE j \in 1..Len(s) :
                      s[j] = sep /\ \A h \in 1..(j - 1) : s[h] # sep
         IN  <<SubSeq(s, 1, k - 1)>> \o split(SubSeq(s, k + 1, Len(s)), sep)

\* str(n) for n >= 0
RECURSIVE Str(_)
Str(n) == IF n < 10 THEN <<Digits[n + 1]>>
          ELSE Str(n \div 10) \o <<Digits[(n % 10) + 1]>>

\* the format spec :02 : zero-padded to a width of at least 2
Pad2(n) == IF n < 10 THEN <<"0">> \o Str(n) ELSE Str(n)

(***************************************************************************)
(* TIME CONVERSION                                                         *)
(***************************************************************************)
\* a parser that swallows a bad field instead of raising
mmsscc_to_seconds_lenient(t) ==
    LET p == split(t, ":")
        q == IF Len(p) >= 2 THEN split(p[2], ".") ELSE <<>>
        F(x) == IF int(x) = Raised THEN 0 ELSE Val(int(x))
    IN  Ret(60000 * (IF Len(p) >= 1 THEN F(p[1]) ELSE 0)
            + 1000 * (IF Len(q) >= 1 THEN F(q[1]) ELSE 0)
            + 10 * (IF Len(q) >= 2 THEN F(q[2]) ELSE 0))

\* m, rest = t.split(":"); s, cc = rest.split(".");
\* int(m)*60 + int(s) + int(cc)/100, in milliseconds.
mmsscc_to_seconds(t) ==
    LET p == split(t, ":")
    IN  IF Len(p) # 2 THEN Raised
        ELSE LET q == split(p[2], ".")
             IN  IF Len(q) # 2 THEN Raised
                 ELSE LET m == int(p[1])
                          s == int(q[1])
                          cc == int(q[2])
                      IN  IF Raised \in {m, s, cc} THEN Raised
                          ELSE Ret(60000 * Val(m) + 1000 * Val(s) + 10 * Val(cc))

\* round(f) for f = frac/10: to the nearest integer; at a nominal half the
\* float product (sec - int(sec)) * 100 lies on either side, so the result is
\* the lower (half = 0) or the upper (half = 1) neighbour.
round(frac, half) ==
    LET q == frac \div 10
        r == frac % 10
    IN  IF r < 5 THEN q ELSE IF r > 5 THEN q + 1 ELSE q + half

\* the centiseconds cut off instead of rounded
seconds_to_mmsscc_trunc(sec, half) ==
    Str(sec \div 60000) \o <<":">> \o Pad2((sec % 60000) \div 1000)
        \o <<".">> \o Pad2((sec % 1000) \div 10)

\* m = int(sec // 60); s = int(sec % 60); cc = int(round((sec - int(sec)) * 100))
\* f"{m}:{s:02}.{cc:02}"
seconds_to_mmsscc(sec, half) ==
    LET m == sec \div 60000
        s == (sec % 60000) \div 1000
        cc == round(sec % 1000, half)
    IN  Str(m) \o <<":">> \o Pad2(s) \o <<".">> \o Pad2(cc)

(***************************************************************************)
(* pandas helpers                                                          *)
(***************************************************************************)
Min(S) == CHOOSE x \in S : \A y \in S : x <= y

\* the elements of a set of integers in ascending order
RECURSIVE Asc(_)
Asc(S) == IF S = {} THEN <<>> ELSE <<Min(S)>> \o Asc(S \ {Min(S)})

Range(s) == {s[k] : k \in 1..Len(s)}

\* Series.unique(): the distinct values in order of first appearance
RECURSIVE unique(_)
unique(s) ==
    IF s = <<>> THEN <<>>
    ELSE LET u == unique(SubSeq(s, 1, Len(s) - 1))
             x == s[Len(s)]
         IN  IF x \in Range(u) THEN u ELSE Append(u, x)

\* The orders in which an ascending sort may leave the rows whose keys are
\* keys[k], k in rest: sort_values() sorts with kind="quicksort", which pandas
\* documents as not stable, so rows with equal keys come out in any order.
RECURSIVE SortOrders(_, _)
SortOrders(keys, rest) ==
    IF rest = {} THEN {<<>>}
    ELSE LET mn == Min({keys[k] : k \in rest})
         IN  UNION {{<<k>> \o o : o \in SortOrders(keys, rest \ {k})} :
                        k \in {j \in rest : keys[j] = mn}}

\* DataFrame.sort_values(key, ascending=True): the possible row orders
sort_values(keys) == SortOrders(keys, 1..Len(keys))

\* Series.cummin(): the smallest value at or before each position
cummin(s) == [p \in 1..Len(s) |-> Min({s[q] : q \in 1..p})]

(***************************************************************************)
(* CONFIG and the loaded sheet                                             *)
(***************************************************************************)
OUTPUT_DIR == <<"charts">>

\* px.colors.qualitative.Dark24: 24 distinct colours, named by their index
PaletteLen == 24

palette == [k \in 1..PaletteLen |-> k]

Row(track, date, player, time) ==
    [Track |-> track, Date |-> date, Player |-> player, Time |-> time]

Players == {1, 2}

TrackA == <<"A", " ", "b">>

TrackB == <<"a", "_", "b">>

TrackC == <<"c">>

TrackNames == {TrackA, TrackB, TrackC}

Time130 == <<"1", ":", "3", "0", ".", "0", "0">>

Time128 == <<"1", ":", "2", "8", ".", "5", "0">>

Time125 == <<"1", ":", "2", "5", ".", "0", "0">>

GoodTimes == {Time130, Time128, Time125}

\* no ":" separator, no "." separator, a non-numeric field
NoColon == <<"1", "3", "0", ".", "0", "0">>

NoDot == <<"1", ":", "3", "0", "0", "0">>

NonNumeric == <<"1", ":", "x", "0", ".", "0", "0">>

ErrTimes == {Time130, NoColon, NoDot, NonNumeric}

\* one track, distinct increasing dates, any players and well-formed times
RecordSheets ==
    UNION {{[k \in 1..n |-> Row(TrackC, k, f[k][1], f[k][2])] :
                f \in [1..n -> Players \X GoodTimes]} : n \in 1..MaxLen}

\* any tracks and dates, in any order
TrackSheets ==
    UNION {{[k \in 1..n |-> Row(f[k][1], f[k][2], 1, Time130)] :
                f \in [1..n -> TrackNames \X (1..MaxDate)]} : n \in 1..MaxRows}

\* two tracks, well-formed and malformed times
ErrorSheets ==
    UNION {{[k \in 1..n |-> Row(f[k][1], k, 1, f[k][2])] :
                f \in [1..n -> {TrackA, TrackC} \X ErrTimes]} : n \in 1..MaxRows}

\* one track, every row a new player who ties the record
WideSheets ==
    {[k \in 1..n |-> Row(TrackC, k, k, Time130)] : n \in 1..(PaletteLen + MaxExtra)}

Sheets == RecordSheets \cup TrackSheets \cup ErrorSheets \cup WideSheets

(***************************************************************************)
(* State                                                                   *)
(***************************************************************************)
VARIABLES
    pc,             \* where the script is
    data,           \* the loaded sheet, one record per row
    Time_sec,       \* data["Time_sec"], parallel to data
    tracks,         \* the values of data["Track"].unique() still to visit
    TRACK_SELECTED,
    df,             \* the track series
    record_df,
    color_map,
    record_points,
    shown_players,
    i,              \* the segment loop's index (1-based)
    traces,         \* the segment traces added to the figure
    markers,        \* the customdata of the record markers
    table_df,
    files,          \* output path -> the track whose chart the file holds
    sec,            \* codec: the duration to format
    text,           \* codec: seconds_to_mmsscc(sec)
    back            \* codec: mmsscc_to_seconds(text)

vars == <<pc, data, Time_sec, tracks, TRACK_SELECTED, df, record_df, color_map,
          record_points, shown_players, i, traces, markers, table_df, files,
          sec, text, back>>

codec_vars == <<sec, text, back>>

track_vars == <<TRACK_SELECTED, df, record_df>>

chart_vars == <<color_map, record_points, shown_players, i, traces>>

Init ==
    /\ pc = "convert"
    /\ data \in Sheets
    /\ Time_sec = <<>>
    /\ tracks = <<>>
    /\ TRACK_SELECTED = <<>>
    /\ df = <<>>
    /\ record_df = <<>>
    /\ color_map = <<>>
    /\ record_points = <<>>
    /\ shown_players = {}
    /\ i = 1
    /\ traces = <<>>
    /\ markers = <<>>
    /\ table_df = <<>>
    /\ files = {}
    /\ sec = 0
    /\ text = <<>>
    /\ back = Raised

(***************************************************************************)
(* The steps of one track                                                  *)
(***************************************************************************)
\* data[data["Track"] == t]: the rows of track t, in sheet order
track_rows(t) == Asc({k \in 1..Len(data) : data[k].Track = t})

\* .sort_values("Date").reset_index(drop=True), with Best_Time = cummin of
\* Time_sec; o is the order the sort leaves the rows in.  The field row is
\* the row's place in the sheet (the index that reset_index drops).
track_series(t, o) ==
    LET rows == track_rows(t)
        best == cummin([j \in 1..Len(rows) |-> Time_sec[rows[o[j]]]])
    IN  [j \in 1..Len(rows) |->
            [row |-> rows[o[j]],
             Date |-> data[rows[o[j]]].Date,
             Player |-> data[rows[o[j]]].Player,
             Time_sec |-> Time_sec[rows[o[j]]],
             Best_Time |-> best[j]]]

\* a selection that takes only a strict improvement for a record
is_record_strict(d, p) == p = 1 \/ d[p].Time_sec < d[p - 1].Best_Time

\* df["Time_sec"] == df["Best_Time"]
is_record(d, p) == d[p].Time_sec = d[p].Best_Time

\* record_df: the selected rows, named by their position in df, with
\* End_Date the next selected row's date (the last row's own date)
record_rows(d) ==
    LET pos == Asc({p \in 1..Len(d) : is_record(d, p)})
    IN  [k \in 1..Len(pos) |->
            [name |-> pos[k],
             Date |-> d[pos[k]].Date,
             Player |-> d[pos[k]].Player,
             Time_sec |-> d[pos[k]].Time_sec,
             Best_Time |-> d[pos[k]].Best_Time,
             End_Date |-> IF k < Len(pos) THEN d[pos[k + 1]].Date
                          ELSE d[pos[k]].Date]]

\* df["Best_Time"].diff() != 0: the first row's diff is NaN, which is != 0
best_changed(d, p) == p = 1 \/ d[p].Best_Time - d[p - 1].Best_Time # 0

\* record_points = df[df["Best_Time"].diff() != 0]
record_points_of(d) ==
    LET pos == Asc({p \in 1..Len(d) : best_changed(d, p)})
    IN  [k \in 1..Len(pos) |->
            [name |-> pos[k],
             Date |-> d[pos[k]].Date,
             Player |-> d[pos[k]].Player,
             Best_Time |-> d[pos[k]].Best_Time]]

\* dict(zip(df["Player"].unique(), palette)): zip stops at the shorter one
color_map_of(d) ==
    LET u == unique([p \in 1..Len(d) |-> d[p].Player])
        n == Min({Len(u), Len(palette)})
    IN  [x \in {u[k] : k \in 1..n} |-> palette[CHOOSE k \in 1..n : u[k] = x]]

\* a segment that stops before the next record's row
end_idx_exclusive(rdf, d, k) ==
    IF k < Len(rdf) THEN rdf[k + 1].name - 1 ELSE Len(d)

\* end_idx: the next record's position in df, or len(df) - 1 for the last
end_idx(rdf, d, k) == IF k < Len(rdf) THEN rdf[k + 1].name ELSE Len(d)

\* a table sorted with the slowest time first
table_order_descending(rp) ==
    sort_values([k \in 1..Len(rp) |-> 0 - rp[k].Best_Time])

\* table_df.sort_values("Best_Time", ascending=True)
table_order(rp) == sort_values([k \in 1..Len(rp) |-> rp[k].Best_Time])

Upper == <<"A", "B", "C", "D", "E", "F", "G", "H", "I", "J", "K", "L", "M",
           "N", "O", "P", "Q", "R", "S", "T", "U", "V", "W", "X", "Y", "Z">>

Lower == <<"a", "b", "c", "d", "e", "f", "g", "h", "i", "j", "k", "l", "m",
           "n", "o", "p", "q", "r", "s", "t", "u", "v", "w", "x", "y", "z">>

\* str.lower(), one character
lower(c) == IF \E k \in 1..26 : Upper[k] = c
            THEN Lower[CHOOSE k \in 1..26 : Upper[k] = c]
            ELSE c

\* TRACK_SELECTED.lower().replace(" ", "_")
safe_name(t) ==
    [k \in 1..Len(t) |-> IF lower(t[k]) = " " THEN "_" ELSE lower(t[k])]

\* os.path.join(OUTPUT_DIR, f"{safe_name}.html")
output_path(t) == OUTPUT_DIR \o <<"/">> \o safe_name(t) \o <<".html">>

(***************************************************************************)
(* Actions                                                                 *)
(***************************************************************************)
\* data["Time_sec"] = data["Time"].apply(mmsscc_to_seconds), every row parsed
ConvertTimes ==
    /\ pc = "convert"
    /\ \A k \in 1..Len(data) : mmsscc_to_seconds(data[k].Time) # Raised
    /\ Time_sec' = [k \in 1..Len(data) |-> Val(mmsscc_to_seconds(data[k].Time))]
    /\ tracks' = unique([k \in 1..Len(data) |-> data[k].Track])
    /\ pc' = "track"
    /\ UNCHANGED <<data, track_vars, chart_vars, markers, table_df, files, codec_vars>>

\* the same line when mmsscc_to_seconds raises on some row: the script ends
ConvertRaises ==
    /\ pc = "convert"
    /\ \E k \in 1..Len(data) : mmsscc_to_seconds(data[k].Time) = Raised
    /\ pc' = "aborted"
    /\ UNCHANGED <<data, Time_sec, tracks, track_vars, chart_vars, markers,
                   table_df, files, codec_vars>>

\* for track in ...: df, Best_Time, record_df
SelectTrack ==
    /\ pc = "track"
    /\ tracks # <<>>
    /\ TRACK_SELECTED' = Head(tracks)
    /\ \E o \in sort_values([j \in 1..Len(track_rows(Head(tracks))) |->
                                data[track_rows(Head(tracks))[j]].Date]) :
          df' = track_series(Head(tracks), o)
    /\ record_df' = record_rows(df')
    /\ pc' = "chart"
    /\ UNCHANGED <<data, Time_sec, tracks, chart_vars, markers, table_df, files,
                   codec_vars>>

\* color_map, record_points, shown_players, and the segment loop's start
BuildChart ==
    /\ pc = "chart"
    /\ color_map' = color_map_of(df)
    /\ record_points' = record_points_of(df)
    /\ shown_players' = {}
    /\ i' = 1
    /\ traces' = <<>>
    /\ pc' = "segments"
    /\ UNCHANGED <<data, Time_sec, tracks, track_vars, markers, table_df, files,
                   codec_vars>>

\* one turn of the segment loop: the trace of record i
AddSegment ==
    /\ pc = "segments"
    /\ i <= Len(record_df)
    /\ record_df[i].Player \in DOMAIN color_map
    /\ traces' = Append(traces,
                        [name |-> record_df[i].Player,
                         start_idx |-> record_df[i].name,
                         end_idx |-> end_idx(record_df, df, i),
                         showlegend |-> record_df[i].Player \notin shown_players,
                         color |-> color_map[record_df[i].Player]])
    /\ shown_players' = shown_players \cup {record_df[i].Player}
    /\ i' = i + 1
    /\ UNCHANGED <<pc, data, Time_sec, tracks, track_vars, color_map,
                   record_points, markers, table_df, files, codec_vars>>

\* color_map[holder] raises KeyError: the script ends
SegmentKeyError ==
    /\ pc = "segments"
    /\ i <= Len(record_df)
    /\ record_df[i].Player \notin DOMAIN color_map
    /\ shown_players' = shown_players \cup {record_df[i].Player}
    /\ pc' = "aborted"
    /\ UNCHANGED <<data, Time_sec, tracks, track_vars, color_map, record_points,
                   i, traces, markers, table_df, files, codec_vars>>

\* the marker trace and the table, both from record_points.  Best_Time is a
\* multiple of 10 ms, so round() meets no half here.
MarkersAndTable ==
    /\ pc = "segments"
    /\ i > Len(record_df)
    /\ markers' = [k \in 1..Len(record_points) |->
                      [name |-> record_points[k].name,
                       Player |-> record_points[k].Player,
                       Time |-> seconds_to_mmsscc(record_points[k].Best_Time, 0)]]
    /\ \E o \in table_order(record_points) :
          table_df' = [k \in 1..Len(record_points) |->
                          [name |-> record_points[o[k]].name,
                           Date |-> record_points[o[k]].Date,
                           Player |-> record_points[o[k]].Player,
                           Time |-> seconds_to_mmsscc(record_points[o[k]].Best_Time, 0)]]
    /\ pc' = "export"
    /\ UNCHANGED <<data, Time_sec, tracks, track_vars, chart_vars, files, codec_vars>>

\* fig.write_html(output_path): the file is created or replaced
Export ==
    /\ pc = "export"
    /\ files' = {f \in files : f.path # output_path(TRACK_SELECTED)}
                    \cup {[path |-> output_path(TRACK_SELECTED),
                           track |-> TRACK_SELECTED]}
    /\ tracks' = Tail(tracks)
    /\ pc' = "track"
    /\ UNCHANGED <<data, Time_sec, track_vars, chart_vars, markers, table_df,
                   codec_vars>>

\* the track loop is exhausted: the script ends normally
Finish ==
    /\ pc = "track"
    /\ tracks = <<>>
    /\ pc' = "done"
    /\ UNCHANGED <<data, Time_sec, tracks, track_vars, chart_vars, markers,
                   table_df, files, codec_vars>>

Next ==
    \/ ConvertTimes
    \/ ConvertRaises
    \/ SelectTrack
    \/ BuildChart
    \/ AddSegment
    \/ SegmentKeyError
    \/ MarkersAndTable
    \/ Export
    \/ Finish

Spec == Init /\ [][Next]_vars

(***************************************************************************)
(* The time codec on its own: format a duration, parse the result          *)
(***************************************************************************)
CodecSeconds == {0, 9, 10, 59}

\* durations in milliseconds: whole minutes 0..MaxMin and 99, the seconds
\* of CodecSeconds, every millisecond of the second
Durations ==
    {60000 * m + 1000 * s + f :
        m \in (0..MaxMin) \cup {99}, s \in CodecSeconds, f \in 0..999}

CodecInit ==
    /\ pc = "format"
    /\ data = <<>>
    /\ Time_sec = <<>>
    /\ tracks = <<>>
    /\ TRACK_SELECTED = <<>>
    /\ df = <<>>
    /\ record_df = <<>>
    /\ color_map = <<>>
    /\ record_points = <<>>
    /\ shown_players = {}
    /\ i = 1
    /\ traces = <<>>
    /\ markers = <<>>
    /\ table_df = <<>>
    /\ files = {}
    /\ sec \in Durations
    /\ text = <<>>
    /\ back = Raised

pipeline_vars == <<data, Time_sec, tracks, track_vars, chart_vars, markers,
                   table_df, files>>

FormatDuration ==
    /\ pc = "format"
    /\ \E half \in {0, 1} : text' = seconds_to_mmsscc(sec, half)
    /\ pc' = "parse"
    /\ UNCHANGED <<pipeline_vars, sec, back>>

ParseDuration ==
    /\ pc = "parse"
    /\ back' = mmsscc_to_seconds(text)
    /\ pc' = "parsed"
    /\ UNCHANGED <<pipeline_vars, sec, text>>

CodecNext == FormatDuration \/ ParseDuration

SpecCodec == CodecInit /\ [][CodecNext]_vars

(***************************************************************************)
(* Properties                                                              *)
(***************************************************************************)
Names(rows) == {rows[k].name : k \in 1..Len(rows)}

\* the positions of df whose time is <= every earlier time
RunningMinima == {p \in 1..Len(df) : \A q \in 1..(p - 1) : df[p].Time_sec <= df[q].Time_sec}

\* C1: in every track series the rows of record_df are, in order, exactly
\* the positions whose time is <= the minimum of all earlier times (a tie
\* included, the first position always), and Best_Time is the running
\* minimum there.
RecordDfIsRunningMinima ==
    df # <<>> =>
        /\ 1 \in Names(record_df)
        /\ Names(record_df) = RunningMinima
        /\ \A k \in 1..(Len(record_df) - 1) : record_df[k].name < record_df[k + 1].name
        /\ \A k \in 1..Len(record_df) :
              record_df[k].Best_Time = df[record_df[k].name].Time_sec

\* C1 witness: the series 1:30.00, 1:28.50, 1:28.50, 1:25.00 with all four
\* positions in record_df
RecordDfTieExample ==
    /\ pc = "chart"
    /\ [p \in 1..Len(df) |-> df[p].Time_sec] = <<90000, 88500, 88500, 85000>>
    /\ [p \in 1..Len(df) |-> df[p].Best_Time] = <<90000, 88500, 88500, 85000>>
    /\ [k \in 1..Len(record_df) |-> record_df[k].name] = <<1, 2, 3, 4>>

\* C2: once the markers and the table are built, their rows are all the
\* record events: the same positions as record_df, those whose time
\* improves or ties the previous best.
MarkersAndTableAreAllRecordEvents ==
    pc = "export" =>
        /\ Names(markers) = Names(record_df)
        /\ Names(table_df) = Names(record_df)
        /\ Names(record_points) = RunningMinima

SegPositions(t) == t.start_idx .. t.end_idx

SegmentsCover == UNION {SegPositions(traces[k]) : k \in 1..Len(traces)} = 1..Len(df)

\* C3 as stated: once the segment loop has ended, the segments cover every
\* position of the series and no position belongs to two segments.
SegmentsPartitionSeries ==
    pc = "export" =>
        /\ SegmentsCover
        /\ \A a, b \in 1..Len(traces) :
              a # b => SegPositions(traces[a]) \cap SegPositions(traces[b]) = {}

\* C3 amended: once the segment loop has ended there is one segment per row
\* of record_df, the segments cover every position of the series, each
\* segment shares exactly its last position with the next segment (the
\* next record's position), and segments that are not neighbours share none.
SegmentsCoverAndShareBoundaries ==
    pc = "export" =>
        /\ Len(traces) = Len(record_df)
        /\ SegmentsCover
        /\ \A a, b \in 1..Len(traces) :
              a < b => SegPositions(traces[a]) \cap SegPositions(traces[b])
                          = IF b = a + 1 THEN {record_df[b].name} ELSE {}

\* C3 witness: three or more segments, one of them with a row that is no record
ThreeSegmentsBuilt ==
    /\ pc = "export"
    /\ Len(traces) >= 3
    /\ \E k \in 1..Len(traces) : traces[k].end_idx - traces[k].start_idx >= 2

\* C4 as stated: of two rows of the table, the one listed first is at an
\* earlier position of the track series.
TableInOrderOfOccurrence ==
    pc = "export" =>
        \A a, b \in 1..Len(table_df) : a < b => table_df[a].name < table_df[b].name

\* C4 amended: of two rows of the table, the one listed first is at a later
\* position of the track series (the fastest, latest record comes first).
TableInReverseOrderOfOccurrence ==
    pc = "export" =>
        \A a, b \in 1..Len(table_df) : a < b => table_df[a].name > table_df[b].name

\* C4 witness: a table of three records
TableOfThreeRecords == pc = "export" /\ Len(table_df) >= 3

\* C5: once color_map is built, every player of the track has a colour,
\* different players have different colours, and every trace is drawn in
\* its holder's colour.
EveryPlayerHasOwnColor ==
    pc \in {"segments", "export"} =>
        /\ \A p \in 1..Len(df) : df[p].Player \in DOMAIN color_map
        /\ \A x, y \in DOMAIN color_map : x # y => color_map[x] # color_map[y]
        /\ \A k \in 1..Len(traces) : traces[k].color = color_map[traces[k].name]

\* C6: the track series is in non-decreasing date order and rows of equal
\* date keep the order they have in the sheet.
SeriesSortedStably ==
    \A a, b \in 1..Len(df) :
        a < b => /\ df[a].Date <= df[b].Date
                 /\ df[a].Date = df[b].Date => df[a].row < df[b].row

\* C7: when the run ends normally, every distinct track has its own file:
\* as many files as tracks, and each track's chart is in one of them.
OneFilePerTrack ==
    pc = "done" =>
        /\ Cardinality(files) = Cardinality({data[k].Track : k \in 1..Len(data)})
        /\ \A k \in 1..Len(data) : \E f \in files : f.track = data[k].Track

\* C8: parsing the formatted duration gives back the duration to within
\* 0.005 s (5 ms).
RoundTripWithinHalfCentisecond ==
    pc = "parsed" =>
        /\ back # Raised
        /\ Val(back) - sec <= 5
        /\ sec - Val(back) <= 5

\* C8 witness: a round trip of a duration whose fraction rounds up to the
\* next whole second
RoundTripAcrossSecond ==
    /\ pc = "parsed"
    /\ sec % 1000 > 995
    /\ back = Ret(sec - (sec % 1000) + 1000)

\* t is M:SS.CC: one or more digits, ":", two digits in 00..59, ".", two digits
IsMSSCC(t) ==
    /\ Len(t) >= 7
    /\ t[Len(t) - 5] = ":"
    /\ t[Len(t) - 2] = "."
    /\ \A k \in 1..Len(t) : k \notin {Len(t) - 5, Len(t) - 2} => IsDigit(t[k])
    /\ IsDigit(t[Len(t) - 4]) /\ DigitVal(t[Len(t) - 4]) <= 5

\* C9: the formatted duration is a well-formed M:SS.CC string.
FormattedIsMSSCC == pc \in {"parse", "parsed"} => IsMSSCC(text)

\* t is digits ":" digits "." digits, every field non-empty
WellFormedTime(t) ==
    \E a, b \in 1..Len(t) :
        /\ 1 < a /\ a + 1 < b /\ b < Len(t)
        /\ t[a] = ":" /\ t[b] = "."
        /\ \A k \in 1..Len(t) : k \notin {a, b} => IsDigit(t[k])

SomeTimeMalformed == \E k \in 1..Len(data) : ~WellFormedTime(data[k].Time)

\* C10: when some row's Time is malformed, the run gets no further than the
\* conversion, where it ends with an error, and no HTML file is written.
MalformedTimeAbortsWithoutOutput ==
    SomeTimeMalformed => pc \in {"convert", "aborted"} /\ files = {}

\* C10 witness: the run has ended with an error on a sheet with one track
\* whose rows are all well-formed and another with a malformed row
AbortedDespiteGoodTrack ==
    /\ pc = "aborted"
    /\ SomeTimeMalformed
    /\ \E k \in 1..Len(data) :
          \A j \in 1..Len(data) :
              data[j].Track = data[k].Track => WellFormedTime(data[j].Time)
    /\ files = {}

====
